---- MODULE Spec2Model ----
(***************************************************************************)
(* Model of the interactive-feedback dialog (package if_ui).               *)
(*                                                                         *)
(*  - helpers.py : preprocess_text, convert_text_to_html,                  *)
(*                 convert_markdown_to_html  (pure functions on strings)   *)
(*  - widgets.py : FeedbackTextEdit (image paste -> base64 records)        *)
(*  - main.py    : FeedbackUI (options, previews, submit, close, run)      *)
(*                                                                         *)
(* A string is a sequence of characters; a character is a one-element      *)
(* name.  Control characters are written LF, TAB, CR.                      *)
(***************************************************************************)
EXTENDS Integers, Sequences, FiniteSets, TLC

(***************************************************************************)
(* Bounds of the model                                                     *)
(***************************************************************************)
MaxTextLen == 3

MaxImages == 2

MaxMdLen == 3

MaxFontEvents == 12

(***************************************************************************)
(* Characters                                                              *)
(***************************************************************************)
BS == "\\"

QUOTE == "\""

LF == "LF"

TAB == "TAB"

CR == "CR"

SPACE == " "

\* the grave accent
BACKTICK == "BACKTICK"

TextAlphabet == {BS, QUOTE, LF, TAB, CR, SPACE, "n", "t", "r", "a", "1", "<"}

RECURSIVE StringsOfLen(_, _)
StringsOfLen(alphabet, n) ==
    IF n = 0 THEN {<<>>}
    ELSE {<<c>> \o s : c \in alphabet, s \in StringsOfLen(alphabet, n - 1)}

StringsUpTo(alphabet, n) == UNION {StringsOfLen(alphabet, k) : k \in 0..n}

\* Longer inputs of interest: JSON string literals, one of them nested.
ExtraTexts ==
    { <<QUOTE, BS, "n", QUOTE>>,
      <<QUOTE, "a", BS, "n", "a", QUOTE>>,
      <<QUOTE, BS, BS, "n", QUOTE>>,
      <<QUOTE, BS, QUOTE, "a", BS, QUOTE, QUOTE>>,
      <<BS, BS, BS, BS, "n">>,
      <<"a", CR, LF, "a", CR, "a">>,
      <<"&", "<", ">", "'", QUOTE, LF>>,
      <<"<", "b", "r", ">", "&", "l", "t", ";">> }

TextInputs == StringsUpTo(TextAlphabet, MaxTextLen) \cup ExtraTexts

\* The characters of the texts given to the Markdown classifier
MdAlphabet == {"#", "*", BACKTICK, ">", "1", SPACE, LF, "a", BS, "n"}

Repeat(c, n) == [i \in 1..n |-> c]

\* Further texts: one line with a feature among nine and among ten lines, a
\* line that matches two patterns among ten lines, two lines with a feature
\* among twelve, lines for the patterns with longer matches or with other
\* characters, and a JSON string literal.
MdExtraTexts ==
    { <<">">> \o Repeat(LF, 8),
      <<">">> \o Repeat(LF, 9),
      <<"*", SPACE, "*">> \o Repeat(LF, 9),
      <<">", LF, ">">> \o Repeat(LF, 10),
      <<"a", "*", "*", "a", "*", "*">>,
      <<"*", "*", "*", "*">>,
      <<"#", "#", "#", "#", "#", "#", SPACE, "a">>,
      <<"#", "#", "#", "#", "#", "#", "#", SPACE, "a">>,
      <<SPACE, "1", "1", ".", SPACE, "a">>,
      <<"1", ".", SPACE>>,
      <<"-", SPACE>>,
      <<"+", TAB, "a">>,
      <<"_", "a", "_">>,
      <<"_", "_", LF, "-", "a">>,
      <<"a", BACKTICK, BACKTICK, "a", BACKTICK>>,
      <<QUOTE, ">", BS, "n", QUOTE>> }

MdInputs == StringsUpTo(MdAlphabet, MaxMdLen) \cup MdExtraTexts

\* Arguments that are not a str (None, an int): such an object is written as
\* a one-element sequence holding its name, which is no character.
NonStrArguments == { <<"<None>">>, <<"<int 1>">> }

\* isinstance(v, str)
IsStr(v) == v \notin NonStrArguments

(***************************************************************************)
(* str primitives                                                          *)
(***************************************************************************)
StartsWith(s, pat) ==
    /\ Len(pat) <= Len(s)
    /\ \A i \in 1..Len(pat) : s[i] = pat[i]

Drop(s, n) == SubSeq(s, n + 1, Len(s))

\* str.replace(pat, rep): non-overlapping occurrences, scanned left to right.
RECURSIVE StrReplace(_, _, _)
StrReplace(s, pat, rep) ==
    IF s = <<>> THEN <<>>
    ELSE IF StartsWith(s, pat) THEN rep \o StrReplace(Drop(s, Len(pat)), pat, rep)
    ELSE <<Head(s)>> \o StrReplace(Tail(s), pat, rep)

PyWhitespace == {SPACE, LF, TAB, CR}

RECURSIVE LStrip(_)
LStrip(s) ==
    IF s # <<>> /\ Head(s) \in PyWhitespace THEN LStrip(Tail(s)) ELSE s

RECURSIVE RStrip(_)
RStrip(s) ==
    IF s # <<>> /\ s[Len(s)] \in PyWhitespace THEN RStrip(SubSeq(s, 1, Len(s) - 1)) ELSE s

\* str.strip()
Strip(s) == RStrip(LStrip(s))

(***************************************************************************)
(* json.loads, as far as preprocess_text depends on it: the kind of the    *)
(* decoded document and, for a string literal, its decoded value.          *)
(* (Characters outside TextAlphabet, such as the u of a \uXXXX escape, do  *)
(* not occur in the inputs of this model.)                                 *)
(***************************************************************************)
JsonWhitespace == {SPACE, TAB, LF, CR}

JsonControlChars == {LF, TAB, CR}

JsonEscapable == {QUOTE, BS, "n", "r", "t"}

JsonUnescape(c) ==
    CASE c = QUOTE -> QUOTE
      [] c = BS -> BS
      [] c = "n" -> LF
      [] c = "r" -> CR
      [] c = "t" -> TAB

RECURSIVE JsonSkipWs(_)
JsonSkipWs(s) ==
    IF s # <<>> /\ Head(s) \in JsonWhitespace THEN JsonSkipWs(Tail(s)) ELSE s

\* The scanner after the opening quote (strict mode): the decoded characters
\* and the rest of the input after the closing quote, or a failure.
RECURSIVE JsonScanString(_)
JsonScanString(s) ==
    IF s = <<>> THEN [ok |-> FALSE, val |-> <<>>, rest |-> <<>>]
    ELSE IF Head(s) = QUOTE THEN [ok |-> TRUE, val |-> <<>>, rest |-> Tail(s)]
    ELSE IF Head(s) \in JsonControlChars THEN [ok |-> FALSE, val |-> <<>>, rest |-> <<>>]
    ELSE IF Head(s) = BS THEN
        IF Len(s) >= 2 /\ s[2] \in JsonEscapable
        THEN LET r == JsonScanString(Drop(s, 2))
             IN  [ok |-> r.ok, val |-> <<JsonUnescape(s[2])>> \o r.val, rest |-> r.rest]
        ELSE [ok |-> FALSE, val |-> <<>>, rest |-> <<>>]
    ELSE LET r == JsonScanString(Tail(s))
         IN  [ok |-> r.ok, val |-> <<Head(s)>> \o r.val, rest |-> r.rest]

RECURSIVE JsonSkipDigits(_)
JsonSkipDigits(s) ==
    IF s # <<>> /\ Head(s) = "1" THEN JsonSkipDigits(Tail(s)) ELSE s

\* kind: "str" (a string literal, val its value), "other" (a document that is
\* not a string), "error" (json.loads raises).
JsonLoads(text) ==
    LET body == JsonSkipWs(text) IN
    IF body = <<>> THEN [kind |-> "error", val |-> <<>>]
    ELSE IF Head(body) = QUOTE THEN
        LET r == JsonScanString(Tail(body)) IN
        IF r.ok /\ JsonSkipWs(r.rest) = <<>>
        THEN [kind |-> "str", val |-> r.val]
        ELSE [kind |-> "error", val |-> <<>>]
    ELSE IF Head(body) = "1" THEN
        IF JsonSkipWs(JsonSkipDigits(body)) = <<>>
        THEN [kind |-> "other", val |-> <<>>]
        ELSE [kind |-> "error", val |-> <<>>]
    ELSE [kind |-> "error", val |-> <<>>]

(***************************************************************************)
(* helpers.py                                                              *)
(***************************************************************************)
\* _ESCAPE_REPLACEMENTS, in the order of the dict
ESCAPE_REPLACEMENTS ==
    << [src |-> <<BS, "n">>, dst |-> <<LF>>],
       [src |-> <<BS, "t">>, dst |-> <<TAB>>],
       [src |-> <<BS, "r">>, dst |-> <<CR>>],
       [src |-> <<BS, BS>>,  dst |-> <<BS>>] >>

\* for src, dst in _ESCAPE_REPLACEMENTS.items(): text = text.replace(src, dst)
RECURSIVE ReplaceEscapes(_, _)
ReplaceEscapes(text, i) ==
    IF i > Len(ESCAPE_REPLACEMENTS) THEN text
    ELSE ReplaceEscapes(StrReplace(text, ESCAPE_REPLACEMENTS[i].src,
                                   ESCAPE_REPLACEMENTS[i].dst), i + 1)

\* A variant without the second replace.
NormaliseNewlines_CrLfOnly(text) ==
    StrReplace(text, <<CR, LF>>, <<LF>>)

\* text.replace("\r\n", "\n").replace("\r", "\n")
NormaliseNewlines(text) ==
    StrReplace(StrReplace(text, <<CR, LF>>, <<LF>>), <<CR>>, <<LF>>)

\* The exception classes of the model; all of them derive from Exception.
ExceptionClasses == {"JSONDecodeError", "ModuleNotFoundError", "Exception"}

\* An exception leaves a try statement when no except clause names it.
Escapes(exc, handlers) == exc # "none" /\ exc \notin handlers

\* what json.loads(text) raises for a str
JsonLoadsException(text) ==
    IF JsonLoads(text).kind = "error" THEN "JSONDecodeError" ELSE "none"

\* except Exception (line 44)
PreprocessHandlers == ExceptionClasses

\* A variant that takes the text of a decoded document that is not a string
\* from the document, without the whitespace around it.
preprocess_text_StripDocument(text) ==
    IF ~IsStr(text) THEN text
    ELSE LET decoded == JsonLoads(text)
             t1 == CASE decoded.kind = "str"   -> decoded.val
                     [] decoded.kind = "other" -> Strip(text)
                     [] decoded.kind = "error" -> text
         IN  NormaliseNewlines(ReplaceEscapes(t1, 1))

preprocess_text(text) ==
    IF ~IsStr(text) THEN text
    ELSE LET decoded == JsonLoads(text)
             t1 == IF decoded.kind = "str" THEN decoded.val ELSE text
         IN  NormaliseNewlines(ReplaceEscapes(t1, 1))

\* does an exception leave preprocess_text
preprocess_text_raises(text) ==
    IsStr(text) /\ Escapes(JsonLoadsException(text), PreprocessHandlers)

\* \s and \d of the re module, for the characters of the model
ReWhitespace == {SPACE, TAB, LF, CR}

ReDigits == {"1"}

\* the number of leading characters of s that are in set
RECURSIVE LeadingRun(_, _)
LeadingRun(s, set) ==
    IF s # <<>> /\ Head(s) \in set THEN 1 + LeadingRun(Tail(s), set) ELSE 0

\* the line after the leading "^\s*" of a pattern
AfterIndent(line) == Drop(line, LeadingRun(line, ReWhitespace))

\* ^#{1,6}\s+.+
MdHeading(line) ==
    LET k == LeadingRun(line, {"#"})
    IN  k \in 1..6 /\ Len(line) >= k + 2 /\ line[k + 1] \in ReWhitespace

\* \*\*.+?\*\*
MdBold(line) ==
    \E i \in 1..Len(line) : \E j \in (i + 3)..(Len(line) - 1) :
        line[i] = "*" /\ line[i + 1] = "*" /\ line[j] = "*" /\ line[j + 1] = "*"

\* \*.+?\*  and  _.+?_
MdItalic(line, mark) ==
    \E i \in 1..Len(line) : \E j \in (i + 2)..Len(line) :
        line[i] = mark /\ line[j] = mark

\* BACKTICK [^BACKTICK]+ BACKTICK
MdInlineCode(line) ==
    \E i \in 1..Len(line) : \E j \in (i + 2)..Len(line) :
        /\ line[i] = BACKTICK /\ line[j] = BACKTICK
        /\ \A m \in (i + 1)..(j - 1) : line[m] # BACKTICK

\* ^\s* BACKTICK BACKTICK BACKTICK
MdFence(line) == StartsWith(AfterIndent(line), <<BACKTICK, BACKTICK, BACKTICK>>)

\* ^\s*>
MdBlockquote(line) == StartsWith(AfterIndent(line), <<">">>)

\* ^\s*[-*+]\s+
MdUnorderedList(line) ==
    LET t == AfterIndent(line)
    IN  Len(t) >= 2 /\ t[1] \in {"-", "*", "+"} /\ t[2] \in ReWhitespace

\* ^\s*\d+\.\s+
MdOrderedList(line) ==
    LET t == AfterIndent(line)
        d == LeadingRun(t, ReDigits)
    IN  d >= 1 /\ Len(t) >= d + 2 /\ t[d + 1] = "." /\ t[d + 2] \in ReWhitespace

\* len(_MD_PATTERNS)
MD_PATTERNS_LEN == 9

\* re.search(_MD_PATTERNS[i - 1], line)
MdPatternMatches(i, line) ==
    CASE i = 1 -> MdHeading(line)
      [] i = 2 -> MdBold(line)
      [] i = 3 -> MdItalic(line, "*")
      [] i = 4 -> MdItalic(line, "_")
      [] i = 5 -> MdInlineCode(line)
      [] i = 6 -> MdFence(line)
      [] i = 7 -> MdBlockquote(line)
      [] i = 8 -> MdUnorderedList(line)
      [] i = 9 -> MdOrderedList(line)

\* A variant of the inner loop without the break.
RECURSIVE LineFeatures_NoBreak(_, _)
LineFeatures_NoBreak(line, i) ==
    IF i > MD_PATTERNS_LEN THEN 0
    ELSE (IF MdPatternMatches(i, line) THEN 1 ELSE 0) + LineFeatures_NoBreak(line, i + 1)

\* for pat in _MD_PATTERNS: if re.search(pat, line): features += 1; break
RECURSIVE LineFeatures(_, _)
LineFeatures(line, i) ==
    IF i > MD_PATTERNS_LEN THEN 0
    ELSE IF MdPatternMatches(i, line) THEN 1
    ELSE LineFeatures(line, i + 1)

\* for line in lines: ...
RECURSIVE CountFeatures(_)
CountFeatures(lines) ==
    IF lines = <<>> THEN 0
    ELSE LineFeatures(Head(lines), 1) + CountFeatures(Tail(lines))

\* text.split("\n")
RECURSIVE SplitLines(_)
SplitLines(text) ==
    IF \E i \in 1..Len(text) : text[i] = LF
    THEN LET first == CHOOSE i \in 1..Len(text) :
                          text[i] = LF /\ \A j \in 1..(i - 1) : text[j] # LF
         IN  <<SubSeq(text, 1, first - 1)>> \o SplitLines(Drop(text, first))
    ELSE <<text>>

\* A variant whose early return gives True.
is_markdown_BlankIsMarkdown(text) ==
    LET t == preprocess_text(text) IN
    IF Strip(t) = <<>> THEN TRUE
    ELSE LET lines == SplitLines(t)
             features == CountFeatures(lines)
         IN  features >= 2 \/ (features # 0 /\ 10 * features > Len(lines))

\* The truth value of what is_markdown returns (for features = 0 the code
\* returns the int 0).  features / len(lines) > 0.1 is decided in floating
\* point only for features = 1, where it agrees with 10 * features > len(lines).
is_markdown(text) ==
    LET t == preprocess_text(text) IN
    IF Strip(t) = <<>> THEN FALSE
    ELSE LET lines == SplitLines(t)
             features == CountFeatures(lines)
         IN  features >= 2 \/ (features # 0 /\ 10 * features > Len(lines))

\* A variant that replaces the ampersand last.
HtmlEscape_AmpersandLast(text) ==
    LET b == StrReplace(text, <<"<">>, <<"&", "l", "t", ";">>)
        c == StrReplace(b, <<">">>, <<"&", "g", "t", ";">>)
        d == StrReplace(c, <<QUOTE>>, <<"&", "q", "u", "o", "t", ";">>)
        e == StrReplace(d, <<"'">>, <<"&", "#", "x", "2", "7", ";">>)
    IN  StrReplace(e, <<"&">>, <<"&", "a", "m", "p", ";">>)

\* html.escape(text) with quote=True
HtmlEscape(text) ==
    LET a == StrReplace(text, <<"&">>, <<"&", "a", "m", "p", ";">>)
        b == StrReplace(a, <<"<">>, <<"&", "l", "t", ";">>)
        c == StrReplace(b, <<">">>, <<"&", "g", "t", ";">>)
        d == StrReplace(c, <<QUOTE>>, <<"&", "q", "u", "o", "t", ";">>)
    IN  StrReplace(d, <<"'">>, <<"&", "#", "x", "2", "7", ";">>)

convert_text_to_html(text) ==
    StrReplace(HtmlEscape(preprocess_text(text)), <<LF>>, <<"<", "b", "r", ">">>)

\* The behaviours of "import markdown; markdown.markdown(...)"
MarkdownEngines == {"absent", "raises", "returns"}

\* What the markdown library returns for a text: an opaque rendering of it.
MarkdownRender(text) == <<"markdown.markdown(">> \o text \o <<")">>

\* what "import markdown; markdown.markdown(...)" raises
MarkdownException(engine) ==
    CASE engine = "absent"  -> "ModuleNotFoundError"
      [] engine = "raises"  -> "Exception"
      [] engine = "returns" -> "none"

\* A variant with the first except clause only.
MarkdownHandlers_OnlyMissingModule == {"ModuleNotFoundError"}

\* except ModuleNotFoundError (line 111), except Exception (line 114)
MarkdownHandlers == {"ModuleNotFoundError"} \cup ExceptionClasses

\* html.escape and str.replace raise nothing for a str
convert_text_to_html_raises(text) == preprocess_text_raises(text)

convert_markdown_to_html(markdown_text, engine) ==
    LET t == preprocess_text(markdown_text) IN
    CASE engine = "returns" -> MarkdownRender(t)
      [] engine = "absent"  -> convert_text_to_html(t)
      [] engine = "raises"  -> convert_text_to_html(t)

\* does an exception leave convert_markdown_to_html
convert_markdown_to_html_raises(markdown_text, engine) ==
    \/ preprocess_text_raises(markdown_text)
    \/ Escapes(MarkdownException(engine), MarkdownHandlers)
    \/ /\ MarkdownException(engine) # "none"
       /\ convert_text_to_html_raises(preprocess_text(markdown_text))

(***************************************************************************)
(* Python values                                                           *)
(***************************************************************************)
None == [py |-> "None"]

NotReturned == [py |-> "not returned"]

(***************************************************************************)
(* State                                                                   *)
(***************************************************************************)
VARIABLES
    text_in,              \* the argument of a helpers.py function
    text_op,              \* the helpers.py function last called on text_in
    text_out,             \* what that call returned
    text_raised,          \* whether that call ended with an exception instead
    md_engine,            \* how the markdown library behaved in that call
    predefined_options,   \* FeedbackUI.predefined_options
    option_checkboxes,    \* FeedbackUI.option_checkboxes (defined or not)
    selection_order,      \* history: the checked boxes, in the order they were checked
    image_data,           \* FeedbackTextEdit.image_data
    image_frames,         \* FeedbackUI.image_frames
    all_frames,           \* every preview frame created so far
    scroll_area_visible,  \* FeedbackUI.scroll_area.isVisible()
    feedback_result,      \* FeedbackUI.feedback_result
    window_open,          \* the dialog window is shown
    event_loop,           \* QApplication.exec(): "running" or "finished"
    run_result,           \* what FeedbackUI.run() returned
    next_bitmap,          \* number of the next bitmap offered to the dialog
    appended,             \* history: every record appended to image_data, in order
    deleted,              \* history: frames removed by _delete_image_frame
    last,                 \* the handler of the dialog that ran last, its inputs and outcome
    point_size,           \* QApplication.instance().font().pointSize()
    font_op,              \* the zoom action that ran last
    prev_size,            \* history: the point size before that action
    font_events           \* history: the number of zoom actions so far

textVars == <<text_in, text_op, text_out, text_raised, md_engine>>

dialogVars == <<predefined_options, option_checkboxes, selection_order, image_data,
                image_frames, all_frames, scroll_area_visible, feedback_result,
                window_open, event_loop, run_result, next_bitmap, appended,
                deleted, last>>

fontVars == <<point_size, font_op, prev_size, font_events>>

vars == <<point_size, font_op, prev_size, font_events,
          text_in, text_op, text_out, text_raised, md_engine,
          predefined_options, option_checkboxes, selection_order, image_data,
          image_frames, all_frames, scroll_area_visible, feedback_result,
          window_open, event_loop, run_result, next_bitmap, appended,
          deleted, last>>

(***************************************************************************)
(* Inputs of the dialog                                                    *)
(***************************************************************************)
\* predefined_options as passed to FeedbackUI (None is treated like the empty
\* list): no option, one, two in either order, a repeated label, three.
OptionLists ==
    { <<>>, <<"A">>, <<"A", "B">>, <<"B", "A">>, <<"A", "A">>, <<"A", "B", "C">> }

\* Contents of the feedback editor: empty, only whitespace, plain, padded
\* with whitespace on both sides, with whitespace inside.
FeedbackTexts ==
    { <<>>, <<SPACE, LF>>, <<"a">>, <<SPACE, "a", LF>>, <<"a", SPACE, "b">> }

\* How QPixmap.save(buffer, format) can end: it writes the PNG bytes, it
\* returns False and writes nothing, or the call raises.
SaveOutcomes == {"ok", "fails", "raises"}

\* How _on_image_pasted can end: the frame is built and listed, or an
\* exception is raised while the frame is being built (before line 674).
PreviewOutcomes == {"ok", "raises"}

\* One path chosen in the file dialog: is the QPixmap loaded from it null,
\* and how do saving it and building its preview end.
FileOutcomes ==
    {[null |-> TRUE, save |-> "ok", preview |-> "ok"]} \cup
    {[null |-> FALSE, save |-> "raises", preview |-> "ok"]} \cup
    {[null |-> FALSE, save |-> sv, preview |-> pv] :
        sv \in {"ok", "fails"}, pv \in PreviewOutcomes}

\* The paths chosen in one file dialog
Batches == StringsUpTo(FileOutcomes, MaxImages)

(***************************************************************************)
(* widgets.py: FeedbackTextEdit                                            *)
(***************************************************************************)
\* self.image_format.lower()
IMAGE_EXTENSION == "png"

\* base64 of the PNG bytes of bitmap k; distinct bitmaps encode differently
PngBase64(k) == <<"b64", k>>

\* base64.b64encode(b"").decode("utf-8")
EmptyBase64 == <<>>

PastedFileName(k) == <<"pasted", k, IMAGE_EXTENSION>>

BaseName(k) == <<"file", k, "png">>

\* the bitmap a record was made from
RecordBitmap(rec) == rec.filename[2]

\* _convert_image_to_base64: the return value of pixmap.save is not looked
\* at, so a failed save yields the encoding of an empty buffer.
ConvertImageToBase64(k, save) ==
    CASE save = "ok"     -> [data |-> PngBase64(k), extension |-> IMAGE_EXTENSION]
      [] save = "fails"  -> [data |-> EmptyBase64, extension |-> IMAGE_EXTENSION]
      [] save = "raises" -> None

\* get_image_data: a shallow copy of the list
get_image_data(data) == data

(***************************************************************************)
(* main.py: FeedbackUI                                                     *)
(***************************************************************************)
OPTIONS_HEADER == "<selected options:>"

CHECK == "<check mark>"

DETAILS_HEADER == "<detailed feedback:>"

\* _create_options_area: one unchecked QCheckBox per option, in declared order
CreateOptionsArea(options) ==
    [i \in 1..Len(options) |-> [text |-> options[i], checked |-> FALSE]]

\* _create_ui: the options area is only created for a non-empty option list
CreateUi(options) ==
    IF options # <<>>
    THEN [defined |-> TRUE, list |-> CreateOptionsArea(options)]
    ELSE [defined |-> FALSE, list |-> <<>>]

\* A variant that collects the labels in the order the boxes were checked.
SelectedOptions_BySelection(boxes) ==
    [j \in 1..Len(selection_order) |-> boxes[selection_order[j]].text]

\* for cb in self.option_checkboxes: if cb.isChecked(): selected.append(cb.text())
RECURSIVE SelectedOptions(_)
SelectedOptions(boxes) ==
    IF boxes = <<>> THEN <<>>
    ELSE (IF Head(boxes).checked THEN <<Head(boxes).text>> ELSE <<>>)
         \o SelectedOptions(Tail(boxes))

\* "\n".join(lines)
RECURSIVE JoinLines(_)
JoinLines(lines) ==
    IF lines = <<>> THEN <<>>
    ELSE IF Len(lines) = 1 THEN lines[1]
    ELSE lines[1] \o <<LF>> \o JoinLines(Tail(lines))

OptionLine(opt) == <<CHECK, SPACE, opt>>

OptionsText(selected) ==
    <<OPTIONS_HEADER, LF>> \o JoinLines([i \in 1..Len(selected) |-> OptionLine(selected[i])])

\* A variant that appends the details section without testing the free text.
ComposeFeedback_AlwaysDetails(plain_text, boxes) ==
    LET ft == Strip(plain_text)
        selected == SelectedOptions(boxes)
    IN  IF selected # <<>>
        THEN OptionsText(selected) \o <<LF, LF, DETAILS_HEADER, LF>> \o ft
        ELSE ft

\* _submit_feedback, lines 557-571: the text of the result
ComposeFeedback(plain_text, boxes) ==
    LET ft == Strip(plain_text)
        selected == SelectedOptions(boxes)
    IN  IF selected # <<>>
        THEN IF ft # <<>>
             THEN OptionsText(selected) \o <<LF, LF, DETAILS_HEADER, LF>> \o ft
             ELSE OptionsText(selected)
        ELSE ft

ImageB64List(data) == [i \in 1..Len(data) |-> data[i].base64]

IndexOf(seq, x) == CHOOSE i \in 1..Len(seq) : seq[i] = x /\ \A j \in 1..(i - 1) : seq[j] # x

RemoveAt(seq, i) == SubSeq(seq, 1, i - 1) \o SubSeq(seq, i + 1, Len(seq))

InSeq(seq, x) == \E i \in 1..Len(seq) : seq[i] = x

\* A variant that does not show the preview area.
OnImagePasted_NoShow(st, k, preview) ==
    IF preview = "ok"
    THEN [frames |-> Append(st.frames, k), visible |-> st.visible, all |-> st.all \cup {k}]
    ELSE st

\* _on_image_pasted: the effect on [frames, visible, all]
OnImagePasted(st, k, preview) ==
    IF preview = "ok"
    THEN [frames |-> Append(st.frames, k), visible |-> TRUE, all |-> st.all \cup {k}]
    ELSE st

\* One iteration of the loop of _on_add_images, for the path whose bitmap is k;
\* st is [data, frames, visible, all, appended].
AddOneImage(st, k, f) ==
    IF f.null \/ f.save = "raises" THEN st
    ELSE LET rec == [base64 |-> IF f.save = "ok" THEN PngBase64(k) ELSE EmptyBase64,
                     filename |-> BaseName(k)]
             pv == OnImagePasted([frames |-> st.frames, visible |-> st.visible, all |-> st.all],
                                 k, f.preview)
         IN  [data |-> Append(st.data, rec), frames |-> pv.frames, visible |-> pv.visible,
              all |-> pv.all, appended |-> Append(st.appended, rec)]

\* for file_path in file_paths: ...   (bitmap numbers first, first+1, ...)
RECURSIVE AddImagesLoop(_, _, _)
AddImagesLoop(st, batch, first) ==
    IF batch = <<>> THEN st
    ELSE AddImagesLoop(AddOneImage(st, first, Head(batch)), Tail(batch), first + 1)

(***************************************************************************)
(* The record "last"                                                       *)
(***************************************************************************)
LastNone ==
    [op |-> "none", raised |-> FALSE, has_image |-> FALSE, image_null |-> FALSE,
     save |-> "ok", preview |-> "ok", img_info |-> None, default_paste |-> FALSE,
     batch |-> <<>>, first |-> 0, n_before |-> 0, frame |-> 0, listed |-> FALSE,
     plain_text |-> <<>>]

(***************************************************************************)
(* Construction: FeedbackUI.__init__ followed by run() up to exec()        *)
(***************************************************************************)
TextIdle ==
    /\ text_in = <<>>
    /\ text_op = "none"
    /\ text_out = <<>>
    /\ text_raised = FALSE
    /\ md_engine = "absent"

DialogConstructed(options) ==
    /\ predefined_options = options
    /\ option_checkboxes = CreateUi(options)
    /\ selection_order = <<>>
    /\ image_data = <<>>
    /\ image_frames = <<>>
    /\ all_frames = {}
    /\ scroll_area_visible = FALSE
    /\ feedback_result = None
    /\ window_open = TRUE
    /\ event_loop = "running"
    /\ run_result = NotReturned
    /\ next_bitmap = 1
    /\ appended = <<>>
    /\ deleted = {}
    /\ last = LastNone

\* font.setPointSize(13) in run_ui, default_font.setPointSize(15) in the
\* command-line entry
RUN_UI_POINT_SIZE == 13

InitialPointSizes == {RUN_UI_POINT_SIZE, 15}

FontIdle(size) ==
    /\ point_size = size
    /\ font_op = "none"
    /\ prev_size = size
    /\ font_events = 0

Init ==
    /\ TextIdle
    /\ FontIdle(RUN_UI_POINT_SIZE)
    /\ \E options \in OptionLists : DialogConstructed(options)

\* Events are dispatched while the event loop runs and the window is shown.
Dispatching == event_loop = "running" /\ window_open

(***************************************************************************)
(* User input                                                              *)
(***************************************************************************)
\* The user clicks the i-th option checkbox.
ToggleOption(i) ==
    /\ Dispatching
    /\ option_checkboxes.defined
    /\ i \in 1..Len(option_checkboxes.list)
    /\ option_checkboxes' =
         [option_checkboxes EXCEPT !.list[i].checked = ~option_checkboxes.list[i].checked]
    /\ selection_order' =
         IF option_checkboxes.list[i].checked
         THEN SelectSeq(selection_order, LAMBDA j : j # i)
         ELSE Append(selection_order, i)
    /\ UNCHANGED <<last, predefined_options, image_data, image_frames,
                   all_frames, scroll_area_visible, feedback_result, window_open,
                   event_loop, run_result, next_bitmap, appended, deleted>>
    /\ UNCHANGED textVars
    /\ UNCHANGED fontVars

(***************************************************************************)
(* FeedbackTextEdit.insertFromMimeData                                     *)
(***************************************************************************)
\* What a paste can be: a clipboard with or without an image, the image null
\* or not, the outcome of saving it and of building its preview, and whether
\* an exception raised in the slot connected to image_pasted comes back out
\* of emit() (it is then caught at line 100 and the default paste runs).
PasteInputs ==
    {p \in [has_image : BOOLEAN, image_null : BOOLEAN, save : SaveOutcomes,
            preview : PreviewOutcomes, propagates : BOOLEAN] :
        /\ (~p.has_image => ~p.image_null)
        /\ ((~p.has_image \/ p.image_null) => p.save = "ok")
        /\ ((~p.has_image \/ p.image_null \/ p.save = "raises") => p.preview = "ok")
        /\ (p.preview = "ok" => ~p.propagates)}

InsertFromMimeData(p) ==
    /\ Dispatching
    /\ next_bitmap <= MaxImages
    /\ LET k == next_bitmap
           converted == p.has_image /\ ~p.image_null
           img_info == IF converted THEN ConvertImageToBase64(k, p.save) ELSE None
           handled == converted /\ img_info # None
           rec == [base64 |-> img_info.data, filename |-> PastedFileName(k)]
           pv == OnImagePasted([frames |-> image_frames, visible |-> scroll_area_visible,
                                all |-> all_frames], k, p.preview)
           fallback == ~handled \/ p.propagates
       IN  /\ IF handled
              THEN /\ image_data' = Append(image_data, rec)
                   /\ appended' = Append(appended, rec)
                   /\ image_frames' = pv.frames
                   /\ scroll_area_visible' = pv.visible
                   /\ all_frames' = pv.all
              ELSE UNCHANGED <<image_data, appended, image_frames,
                               scroll_area_visible, all_frames>>
           /\ last' = [LastNone EXCEPT !.op = "paste", !.has_image = p.has_image,
                          !.image_null = p.image_null, !.save = p.save,
                          !.preview = p.preview, !.img_info = img_info,
                          !.default_paste = fallback, !.first = k,
                          !.n_before = Len(appended)]
           /\ next_bitmap' = IF p.has_image THEN k + 1 ELSE k
    /\ UNCHANGED <<predefined_options, option_checkboxes, selection_order, feedback_result,
                   window_open, event_loop, run_result, deleted>>
    /\ UNCHANGED textVars
    /\ UNCHANGED fontVars

(***************************************************************************)
(* FeedbackUI._on_add_images                                               *)
(***************************************************************************)
OnAddImages(batch) ==
    /\ Dispatching
    /\ next_bitmap + Len(batch) <= MaxImages + 1
    /\ LET st == AddImagesLoop([data |-> image_data, frames |-> image_frames,
                                visible |-> scroll_area_visible, all |-> all_frames,
                                appended |-> appended], batch, next_bitmap)
       IN  /\ image_data' = st.data
           /\ image_frames' = st.frames
           /\ scroll_area_visible' = st.visible
           /\ all_frames' = st.all
           /\ appended' = st.appended
    /\ next_bitmap' = next_bitmap + Len(batch)
    /\ last' = [LastNone EXCEPT !.op = "add_images", !.batch = batch,
                   !.first = next_bitmap, !.n_before = Len(appended)]
    /\ UNCHANGED <<predefined_options, option_checkboxes, selection_order,
                   feedback_result, window_open, event_loop, run_result, deleted>>
    /\ UNCHANGED textVars
    /\ UNCHANGED fontVars

(***************************************************************************)
(* FeedbackUI._delete_image_frame                                          *)
(***************************************************************************)
\* A variant that pops the last record, whatever the index of the frame.
DeleteImageFrame_PopsLast(frame) ==
    /\ Dispatching
    /\ frame \in all_frames
    /\ IF InSeq(image_frames, frame)
       THEN LET frames2 == RemoveAt(image_frames, IndexOf(image_frames, frame))
            IN  /\ image_frames' = frames2
                /\ image_data' = IF image_data # <<>>
                                 THEN RemoveAt(image_data, Len(image_data))
                                 ELSE image_data
                /\ scroll_area_visible' = IF frames2 = <<>> THEN FALSE
                                          ELSE scroll_area_visible
                /\ deleted' = deleted \cup {frame}
       ELSE UNCHANGED <<image_frames, image_data, scroll_area_visible, deleted>>
    /\ last' = [LastNone EXCEPT !.op = "delete", !.frame = frame,
                   !.listed = InSeq(image_frames, frame),
                   !.n_before = Len(appended)]
    /\ UNCHANGED <<predefined_options, option_checkboxes, selection_order, all_frames,
                   feedback_result, window_open, event_loop, run_result,
                   next_bitmap, appended>>
    /\ UNCHANGED textVars
    /\ UNCHANGED fontVars

\* A variant without the membership test: for a frame that is not in the
\* list it drops the last frame and the last record.
DeleteImageFrame_Unguarded(frame) ==
    /\ Dispatching
    /\ frame \in all_frames
    /\ LET frame_index == IF InSeq(image_frames, frame)
                          THEN IndexOf(image_frames, frame) - 1
                          ELSE Len(image_frames) - 1
           frames2 == IF image_frames = <<>> THEN <<>>
                      ELSE RemoveAt(image_frames, frame_index + 1)
       IN  /\ image_frames' = frames2
           /\ image_data' = IF image_frames # <<>> /\ frame_index < Len(image_data)
                            THEN RemoveAt(image_data, frame_index + 1)
                            ELSE image_data
           /\ scroll_area_visible' = IF frames2 = <<>> THEN FALSE
                                     ELSE scroll_area_visible
           /\ deleted' = deleted \cup {frame}
    /\ last' = [LastNone EXCEPT !.op = "delete", !.frame = frame,
                   !.listed = InSeq(image_frames, frame),
                   !.n_before = Len(appended)]
    /\ UNCHANGED <<predefined_options, option_checkboxes, selection_order, all_frames,
                   feedback_result, window_open, event_loop, run_result,
                   next_bitmap, appended>>
    /\ UNCHANGED textVars
    /\ UNCHANGED fontVars

DeleteImageFrame(frame) ==
    /\ Dispatching
    /\ frame \in all_frames
    /\ IF InSeq(image_frames, frame)
       THEN LET frame_index == IndexOf(image_frames, frame) - 1
                frames2 == RemoveAt(image_frames, frame_index + 1)
            IN  /\ image_frames' = frames2
                /\ image_data' = IF frame_index < Len(image_data)
                                 THEN RemoveAt(image_data, frame_index + 1)
                                 ELSE image_data
                /\ scroll_area_visible' = IF frames2 = <<>> THEN FALSE
                                          ELSE scroll_area_visible
                /\ deleted' = deleted \cup {frame}
       ELSE UNCHANGED <<image_frames, image_data, scroll_area_visible, deleted>>
    /\ last' = [LastNone EXCEPT !.op = "delete", !.frame = frame,
                   !.listed = InSeq(image_frames, frame),
                   !.n_before = Len(appended)]
    /\ UNCHANGED <<predefined_options, option_checkboxes, selection_order, all_frames,
                   feedback_result, window_open, event_loop, run_result,
                   next_bitmap, appended>>
    /\ UNCHANGED textVars
    /\ UNCHANGED fontVars

(***************************************************************************)
(* FeedbackUI._submit_feedback                                             *)
(***************************************************************************)
\* plain_text is what self.feedback_text.toPlainText() returns: the content of
\* the editor, which the user can have set to anything before submitting.
\* Reading self.option_checkboxes raises AttributeError when the options area
\* was never created; the slot then ends there and nothing has been assigned.
SubmitFeedback(plain_text) ==
    /\ Dispatching
    /\ IF option_checkboxes.defined
       THEN /\ feedback_result' =
                 [interactive_feedback |-> ComposeFeedback(plain_text, option_checkboxes.list),
                  images |-> ImageB64List(get_image_data(image_data))]
            /\ window_open' = FALSE
            /\ event_loop' = "finished"
            /\ last' = [LastNone EXCEPT !.op = "submit", !.plain_text = plain_text]
       ELSE /\ UNCHANGED <<feedback_result, window_open, event_loop>>
            /\ last' = [LastNone EXCEPT !.op = "submit", !.plain_text = plain_text,
                           !.raised = TRUE]
    /\ UNCHANGED <<predefined_options, option_checkboxes, selection_order, image_data,
                   image_frames, all_frames, scroll_area_visible, run_result,
                   next_bitmap, appended, deleted>>
    /\ UNCHANGED textVars
    /\ UNCHANGED fontVars

(***************************************************************************)
(* Closing: the cancel button, the Esc / Ctrl+W / Meta+W shortcuts and the *)
(* window's close button all call close(); closeEvent accepts the event,  *)
(* and closing the last window ends exec().  Ctrl+Q / Meta+Q call          *)
(* QApplication.quit() directly.                                           *)
(***************************************************************************)
CloseWays == {"cancel", "shortcut", "window"}

\* A variant that stores an empty result when the dialog is closed.
Close_StoresEmptyResult(way) ==
    /\ Dispatching
    /\ window_open' = FALSE
    /\ event_loop' = "finished"
    /\ last' = [LastNone EXCEPT !.op = way]
    /\ feedback_result' = [interactive_feedback |-> <<>>, images |-> <<>>]
    /\ UNCHANGED <<predefined_options, option_checkboxes, selection_order, image_data,
                   image_frames, all_frames, scroll_area_visible,
                   run_result, next_bitmap, appended, deleted>>
    /\ UNCHANGED textVars
    /\ UNCHANGED fontVars

Close(way) ==
    /\ Dispatching
    /\ window_open' = FALSE
    /\ event_loop' = "finished"
    /\ last' = [LastNone EXCEPT !.op = way]
    /\ UNCHANGED <<predefined_options, option_checkboxes, selection_order, image_data,
                   image_frames, all_frames, scroll_area_visible, feedback_result,
                   run_result, next_bitmap, appended, deleted>>
    /\ UNCHANGED textVars
    /\ UNCHANGED fontVars

Quit ==
    /\ Dispatching
    /\ event_loop' = "finished"
    /\ last' = [LastNone EXCEPT !.op = "quit"]
    /\ UNCHANGED <<predefined_options, option_checkboxes, selection_order, image_data,
                   image_frames, all_frames, scroll_area_visible, feedback_result,
                   window_open, run_result, next_bitmap, appended, deleted>>
    /\ UNCHANGED textVars
    /\ UNCHANGED fontVars

\* FeedbackUI.run: after exec() has ended, return self.feedback_result
RunReturn ==
    /\ event_loop = "finished"
    /\ run_result = NotReturned
    /\ run_result' = feedback_result
    /\ UNCHANGED <<predefined_options, option_checkboxes, selection_order, image_data,
                   image_frames, all_frames, scroll_area_visible, feedback_result,
                   window_open, event_loop, next_bitmap, appended, deleted, last>>
    /\ UNCHANGED textVars
    /\ UNCHANGED fontVars

Next ==
    \/ \E i \in 1..Len(predefined_options) : ToggleOption(i)
    \/ \E p \in PasteInputs : InsertFromMimeData(p)
    \/ \E batch \in Batches : OnAddImages(batch)
    \/ \E frame \in 1..MaxImages : DeleteImageFrame(frame)
    \/ \E plain_text \in FeedbackTexts : SubmitFeedback(plain_text)
    \/ \E way \in CloseWays : Close(way)
    \/ Quit
    \/ RunReturn

Spec == Init /\ [][Next]_vars

(***************************************************************************)
(* The functions of helpers.py, called on every input text.  The dialog    *)
(* plays no part in these behaviours: it stays as constructed.             *)
(***************************************************************************)
TextInit ==
    /\ text_in \in TextInputs \cup NonStrArguments
    /\ text_op = "none"
    /\ text_out = <<>>
    /\ text_raised = FALSE
    /\ md_engine = "absent"
    /\ FontIdle(RUN_UI_POINT_SIZE)
    /\ DialogConstructed(<<>>)

\* The value of a call that ended with an exception: there is none.
NoValue == <<>>

CallPreprocessText ==
    /\ text_op' = "preprocess_text"
    /\ text_raised' = preprocess_text_raises(text_in)
    /\ text_out' = IF text_raised' THEN NoValue ELSE preprocess_text(text_in)
    /\ UNCHANGED <<text_in, md_engine>>
    /\ UNCHANGED dialogVars
    /\ UNCHANGED fontVars

\* The converters are called with a str.
CallConvertTextToHtml ==
    /\ IsStr(text_in)
    /\ text_op' = "convert_text_to_html"
    /\ text_raised' = convert_text_to_html_raises(text_in)
    /\ text_out' = IF text_raised' THEN NoValue ELSE convert_text_to_html(text_in)
    /\ UNCHANGED <<text_in, md_engine>>
    /\ UNCHANGED dialogVars
    /\ UNCHANGED fontVars

CallConvertMarkdownToHtml(engine) ==
    /\ IsStr(text_in)
    /\ text_op' = "convert_markdown_to_html"
    /\ md_engine' = engine
    /\ text_raised' = convert_markdown_to_html_raises(text_in, engine)
    /\ text_out' = IF text_raised' THEN NoValue
                   ELSE convert_markdown_to_html(text_in, engine)
    /\ UNCHANGED text_in
    /\ UNCHANGED dialogVars
    /\ UNCHANGED fontVars

TextNext ==
    \/ CallPreprocessText
    \/ CallConvertTextToHtml
    \/ \E engine \in MarkdownEngines : CallConvertMarkdownToHtml(engine)

TextSpec == TextInit /\ [][TextNext]_vars

(***************************************************************************)
(* The Markdown classifier and the description area of the dialog, for     *)
(* every prompt.                                                           *)
(***************************************************************************)
\* _create_description_area: the argument of self.description_text.setHtml
DescriptionHtml(prompt, engine) ==
    LET processed == preprocess_text(prompt) IN
    IF is_markdown(processed)
    THEN convert_markdown_to_html(processed, engine)
    ELSE convert_text_to_html(processed)

\* does an exception leave _create_description_area
DescriptionRaises(prompt, engine) ==
    LET processed == preprocess_text(prompt) IN
    \/ preprocess_text_raises(prompt)
    \/ preprocess_text_raises(processed)
    \/ IF is_markdown(processed)
       THEN convert_markdown_to_html_raises(processed, engine)
       ELSE convert_text_to_html_raises(processed)

MdInit ==
    /\ text_in \in MdInputs
    /\ text_op = "none"
    /\ text_out = <<>>
    /\ text_raised = FALSE
    /\ md_engine = "absent"
    /\ FontIdle(RUN_UI_POINT_SIZE)
    /\ DialogConstructed(<<>>)

CallIsMarkdown ==
    /\ text_op' = "is_markdown"
    /\ text_raised' = preprocess_text_raises(text_in)
    /\ text_out' = IF text_raised' THEN NoValue ELSE is_markdown(text_in)
    /\ UNCHANGED <<text_in, md_engine>>
    /\ UNCHANGED dialogVars
    /\ UNCHANGED fontVars

\* FeedbackUI(prompt = text_in): the description area is filled
CreateDescriptionArea(engine) ==
    /\ text_op' = "_create_description_area"
    /\ md_engine' = engine
    /\ text_raised' = DescriptionRaises(text_in, engine)
    /\ text_out' = IF text_raised' THEN NoValue ELSE DescriptionHtml(text_in, engine)
    /\ UNCHANGED text_in
    /\ UNCHANGED dialogVars
    /\ UNCHANGED fontVars

MdNext ==
    \/ CallIsMarkdown
    \/ \E engine \in MarkdownEngines : CreateDescriptionArea(engine)

MdSpec == MdInit /\ [][MdNext]_vars

(***************************************************************************)
(* The zoom shortcuts of the dialog (Ctrl+= / Ctrl++, Ctrl+-, Ctrl+0) and  *)
(* FeedbackUI._adjust_font.                                                *)
(***************************************************************************)
Max(a, b) == IF a >= b THEN a ELSE b

Min(a, b) == IF a <= b THEN a ELSE b

\* The zoom factors 1.1 and 0.9, in tenths
ZOOM_IN_TENTHS == 11

ZOOM_OUT_TENTHS == 9

RESET_POINT_SIZE == 13

\* A variant without the clamp.
AdjustFont_NoClamp(current_size, tenths, reset) ==
    IF reset THEN RESET_POINT_SIZE
    ELSE (current_size * tenths) \div 10

\* _adjust_font: the point size handed to app.setFont.  int(current_size *
\* factor) in floating point is the integer quotient of current_size * tenths
\* by 10 for every size from 1 to 39.
AdjustFont(current_size, tenths, reset) ==
    IF reset THEN RESET_POINT_SIZE
    ELSE Max(8, Min(24, (current_size * tenths) \div 10))

\* zoom_in.triggered: self._adjust_font(1.1)
ZoomIn ==
    /\ Dispatching
    /\ font_events < MaxFontEvents
    /\ font_op' = "zoom_in"
    /\ prev_size' = point_size
    /\ point_size' = AdjustFont(point_size, ZOOM_IN_TENTHS, FALSE)
    /\ font_events' = font_events + 1
    /\ UNCHANGED textVars
    /\ UNCHANGED dialogVars

\* zoom_out.triggered: self._adjust_font(0.9)
ZoomOut ==
    /\ Dispatching
    /\ font_events < MaxFontEvents
    /\ font_op' = "zoom_out"
    /\ prev_size' = point_size
    /\ point_size' = AdjustFont(point_size, ZOOM_OUT_TENTHS, FALSE)
    /\ font_events' = font_events + 1
    /\ UNCHANGED textVars
    /\ UNCHANGED dialogVars

\* reset_zoom.triggered: self._adjust_font(reset=True), factor left at 1.0
ResetZoom ==
    /\ Dispatching
    /\ font_events < MaxFontEvents
    /\ font_op' = "reset"
    /\ prev_size' = point_size
    /\ point_size' = AdjustFont(point_size, 10, TRUE)
    /\ font_events' = font_events + 1
    /\ UNCHANGED textVars
    /\ UNCHANGED dialogVars

FontInit ==
    /\ TextIdle
    /\ \E size \in InitialPointSizes : FontIdle(size)
    /\ DialogConstructed(<<>>)

FontNext ==
    \/ ZoomIn
    \/ ZoomOut
    \/ ResetZoom

FontSpec == FontInit /\ [][FontNext]_vars

(***************************************************************************)
(* C5.  Normalisation is idempotent: normalising the result of             *)
(* preprocess_text again gives the same text.                              *)
(***************************************************************************)
C5_Idempotent ==
    text_op = "preprocess_text" => preprocess_text(text_out) = text_out

(***************************************************************************)
(* C10.  Markdown-renderer fallback: when the markdown library is absent   *)
(* or raises, convert_markdown_to_html(s) equals convert_text_to_html(s).  *)
(***************************************************************************)
C10_MarkdownFallback ==
    (text_op = "convert_markdown_to_html" /\ md_engine \in {"absent", "raises"})
        => text_out = convert_text_to_html(text_in)

(***************************************************************************)
(* Definitions used by the properties of the dialog                        *)
(***************************************************************************)
Submitted == feedback_result # None

IsCompleteResult(r) == DOMAIN r = {"interactive_feedback", "images"}

CheckedBoxes == {i \in 1..Len(option_checkboxes.list) : option_checkboxes.list[i].checked}

\* the j-th checked box, counted in the order of declaration
NthChecked(j) ==
    CHOOSE i \in CheckedBoxes : Cardinality({m \in CheckedBoxes : m < i}) = j - 1

\* the records appended so far whose preview the user did not delete
KeptRecords == SelectSeq(appended, LAMBDA rec : RecordBitmap(rec) \notin deleted)

\* a path of a batch that yields no usable image
FailingPath(f) == f.null \/ f.save \in {"fails", "raises"}

(***************************************************************************)
(* C1.  A submission always succeeds once invoked: whenever                *)
(* _submit_feedback has run, it completed without error, feedback_result   *)
(* holds a FeedbackResult and the dialog is closed.                        *)
(***************************************************************************)
C1_SubmitAlwaysSucceeds ==
    last.op = "submit" =>
        /\ ~last.raised
        /\ feedback_result # None
        /\ IsCompleteResult(feedback_result)
        /\ ~window_open

(***************************************************************************)
(* C2.  No partial result is ever exposed: once run() has returned, what   *)
(* it returned is a complete FeedbackResult with interactive_feedback and  *)
(* images, whichever way the dialog was closed.                            *)
(***************************************************************************)
C2_RunReturnsCompleteResult ==
    run_result # NotReturned => IsCompleteResult(run_result)

(***************************************************************************)
(* C3.  Image order is preserved: the images of the result are the base64  *)
(* data of exactly the appended and not deleted images, in append order.   *)
(***************************************************************************)
C3_ImageOrderPreserved ==
    Submitted => feedback_result.images = ImageB64List(KeptRecords)

(***************************************************************************)
(* C4.  The preview-frame list and the image-data list stay in lock-step:  *)
(* same length, and the frame at index i previews the record at index i.   *)
(***************************************************************************)
C4_LockStep ==
    /\ Len(image_frames) = Len(image_data)
    /\ \A i \in 1..Len(image_frames) :
          i <= Len(image_data) => image_frames[i] = RecordBitmap(image_data[i])

(***************************************************************************)
(* C6.  Image batch resilience: a file-add batch of N paths of which       *)
(* exactly one is unreadable or fails to encode appends exactly N-1        *)
(* records, those of the remaining paths, in their order.                  *)
(***************************************************************************)
C6_BatchResilience ==
    LET batch == last.batch
        n == Len(batch)
        failing == {i \in 1..n : FailingPath(batch[i])}
        added == SubSeq(appended, last.n_before + 1, Len(appended))
        \* the position in the batch of the j-th path that does not fail
        good(j) == CHOOSE i \in (1..n) \ failing :
                       Cardinality({m \in (1..n) \ failing : m < i}) = j - 1
    IN  (last.op = "add_images" /\ Cardinality(failing) = 1) =>
            /\ Len(added) = n - 1
            /\ \A j \in 1..Len(added) :
                  j <= n - 1 =>
                    added[j] = [base64 |-> PngBase64(last.first + good(j) - 1),
                                filename |-> BaseName(last.first + good(j) - 1)]

(***************************************************************************)
(* C7.  The image encoder returns None on any encoding failure: when the   *)
(* save step of a pasted image raises or reports failure,                  *)
(* _convert_image_to_base64 returns None and no record is appended.        *)
(***************************************************************************)
C7_EncoderReturnsNoneOnFailure ==
    (last.op = "paste" /\ last.has_image /\ ~last.image_null /\ last.save # "ok") =>
        /\ last.img_info = None
        /\ Len(appended) = last.n_before

(***************************************************************************)
(* C8.  Selected options are rendered in declared order: the check-marked  *)
(* lines of the submitted text carry exactly the labels of the boxes       *)
(* checked at submit time, one line per checked box, in the order of       *)
(* predefined_options, whatever the order in which they were checked.      *)
(***************************************************************************)
C8_DeclaredOrder ==
    Submitted =>
        LET text == feedback_result.interactive_feedback
            marks == {p \in 1..Len(text) : text[p] = CHECK}
            mark(j) == CHOOSE p \in marks : Cardinality({q \in marks : q < p}) = j - 1
        IN  /\ Cardinality(marks) = Cardinality(CheckedBoxes)
            /\ \A j \in 1..Cardinality(marks) :
                  /\ mark(j) + 2 <= Len(text)
                  /\ text[mark(j) + 1] = SPACE
                  /\ text[mark(j) + 2] = predefined_options[NthChecked(j)]

\* submitted with two boxes checked, the later one first
C8_Witness ==
    /\ Submitted
    /\ Len(selection_order) >= 2
    /\ selection_order[1] > selection_order[2]

(***************************************************************************)
(* C9.  Submission text composition: with an option selected and non-empty *)
(* trimmed free text, the text is the option block, a blank line, the      *)
(* details header line and the free text; with an option selected and      *)
(* empty trimmed free text, the option block alone; with no option         *)
(* selected, the trimmed free text alone.                                  *)
(***************************************************************************)
\* ft is t without its leading and trailing whitespace
IsTrimOf(ft, t) ==
    \E i \in 1..(Len(t) + 1) : \E j \in (i - 1)..Len(t) :
        /\ ft = SubSeq(t, i, j)
        /\ \A k \in 1..(i - 1) : t[k] \in PyWhitespace
        /\ \A k \in (j + 1)..Len(t) : t[k] \in PyWhitespace
        /\ i <= j => (t[i] \notin PyWhitespace /\ t[j] \notin PyWhitespace)

\* the header line, then one line "check mark, space, label" per label
OptionBlock(labels) ==
    [p \in 1..(1 + 4 * Len(labels)) |->
        IF p = 1 THEN OPTIONS_HEADER
        ELSE CASE (p - 2) % 4 = 0 -> LF
               [] (p - 2) % 4 = 1 -> CHECK
               [] (p - 2) % 4 = 2 -> SPACE
               [] (p - 2) % 4 = 3 -> labels[((p - 2) \div 4) + 1]]

CheckedLabels == [j \in 1..Cardinality(CheckedBoxes) |-> predefined_options[NthChecked(j)]]

C11_RenderingNeverRaises ==
    text_op = "convert_markdown_to_html" =>
        /\ ~text_raised
        /\ IsStr(text_out)

\* the library raised on a text with a line break and a metacharacter
C11_Witness ==
    /\ text_op = "convert_markdown_to_html"
    /\ md_engine = "raises"
    /\ text_in = <<"a", LF, "<">>
    /\ text_out = <<"a", "<", "b", "r", ">", "&", "l", "t", ";">>

(***************************************************************************)
(* C12.  preprocess_text is total: no exception leaves it; an argument     *)
(* that is not a str is returned unchanged; a str gives a str, also when   *)
(* it is no JSON document; a JSON document that is not a string leaves the *)
(* text as the input (of which only the line endings are then normalised). *)
(***************************************************************************)
C12_PreprocessTotal ==
    text_op = "preprocess_text" =>
        /\ ~text_raised
        /\ ~IsStr(text_in) => text_out = text_in
        /\ IsStr(text_in) => IsStr(text_out)
        /\ (IsStr(text_in) /\ JsonLoads(text_in).kind = "other") =>
              /\ Len(text_out) <= Len(text_in)
              /\ text_out = NormaliseNewlines(text_in)

\* a number document with whitespace around it
C12_Witness ==
    /\ text_op = "preprocess_text"
    /\ text_in = <<SPACE, "1", CR>>
    /\ text_out = <<SPACE, "1", LF>>

(***************************************************************************)
(* Definitions used by the properties of the normaliser                    *)
(***************************************************************************)
\* the text after the JSON step of preprocess_text
AfterJson(text) ==
    IF JsonLoads(text).kind = "str" THEN JsonLoads(text).val ELSE text

\* the text after the escape step of preprocess_text
AfterEscapes(text) == ReplaceEscapes(AfterJson(text), 1)

HasChar(s, c) == \E i \in 1..Len(s) : s[i] = c

\* s read once from left to right: a CR followed by LF gives one LF, any
\* other CR gives one LF
RECURSIVE LineEndingsToLf(_)
LineEndingsToLf(s) ==
    IF s = <<>> THEN <<>>
    ELSE IF Head(s) = CR
         THEN <<LF>> \o LineEndingsToLf(IF Len(s) >= 2 /\ s[2] = LF THEN Drop(s, 2) ELSE Tail(s))
         ELSE <<Head(s)>> \o LineEndingsToLf(Tail(s))

(***************************************************************************)
(* C13.  Line-ending normalisation: the result of preprocess_text on a     *)
(* string has no carriage return; it is the text after the escape step     *)
(* with every CR LF pair turned into one LF and every other CR (also one   *)
(* that came from a backslash-r escape) turned into one LF.                *)
(***************************************************************************)
C13_LineEndings ==
    (text_op = "preprocess_text" /\ IsStr(text_in)) =>
        /\ ~HasChar(text_out, CR)
        /\ text_out = LineEndingsToLf(AfterEscapes(text_in))

\* a CR that came from a backslash-r escape, followed by a LF
C13_Witness ==
    /\ text_op = "preprocess_text"
    /\ text_in = <<BS, "r", LF>>
    /\ text_out = <<LF>>

(***************************************************************************)
(* Definitions used by the properties of the classifier                    *)
(***************************************************************************)
\* the lines of the normalised text
NormalisedLines(text) == SplitLines(preprocess_text(text))

\* the lines of the normalised text that match at least one pattern
HitLines(text) ==
    {i \in 1..Len(NormalisedLines(text)) :
        \E pat \in 1..MD_PATTERNS_LEN : MdPatternMatches(pat, NormalisedLines(text)[i])}

(***************************************************************************)
(* C14.  Markdown classification rule: with hits the number of lines of    *)
(* the normalised text that match at least one pattern (so hits is at most *)
(* the number of lines), is_markdown is true exactly when hits >= 2, or    *)
(* hits is not zero and hits / line_count > 0.1; a single line with a      *)
(* feature makes the text Markdown only when it has fewer than 10 lines.   *)
(***************************************************************************)
C14_ClassificationRule ==
    text_op = "is_markdown" =>
        LET hits == Cardinality(HitLines(text_in))
            line_count == Len(NormalisedLines(text_in))
        IN  /\ hits <= line_count
            /\ text_out <=> (hits >= 2 \/ (hits # 0 /\ 10 * hits > line_count))
            /\ hits = 1 => (text_out <=> line_count < 10)

\* one line with a feature among ten lines: not Markdown
C14_Witness ==
    /\ text_op = "is_markdown"
    /\ text_in = <<">">> \o Repeat(LF, 9)
    /\ text_out = FALSE
    /\ Cardinality(HitLines(text_in)) = 1

(***************************************************************************)
(* C15.  Empty or whitespace-only text is not Markdown: is_markdown is     *)
(* false for every input whose normalised form is empty or has only        *)
(* whitespace, also when the input is made of escape sequences.            *)
(***************************************************************************)
C15_BlankIsNotMarkdown ==
    LET t == preprocess_text(text_in) IN
    (text_op = "is_markdown" /\ \A i \in 1..Len(t) : t[i] \in PyWhitespace) =>
        text_out = FALSE

\* an escape sequence and a space
C15_Witness ==
    /\ text_op = "is_markdown"
    /\ text_in = <<BS, "n", SPACE>>
    /\ text_out = FALSE

(***************************************************************************)
(* C16.  Plain-text rendering always succeeds and is HTML-safe: for every  *)
(* string, convert_text_to_html raises nothing, its result has no line     *)
(* feed, and it is the normalised text read character by character with    *)
(* every LF given as one line-break tag and every HTML metacharacter       *)
(* (<, >, &, both quotes) given as its entity; so a "<" of the result      *)
(* starts a line-break tag and nothing else.                               *)
(***************************************************************************)
LINE_BREAK_TAG == <<"<", "b", "r", ">">>

HtmlOfChar(c) ==
    CASE c = LF    -> LINE_BREAK_TAG
      [] c = "&"   -> <<"&", "a", "m", "p", ";">>
      [] c = "<"   -> <<"&", "l", "t", ";">>
      [] c = ">"   -> <<"&", "g", "t", ";">>
      [] c = QUOTE -> <<"&", "q", "u", "o", "t", ";">>
      [] c = "'"   -> <<"&", "#", "x", "2", "7", ";">>
      [] OTHER     -> <<c>>

RECURSIVE HtmlOfChars(_)
HtmlOfChars(s) ==
    IF s = <<>> THEN <<>> ELSE HtmlOfChar(Head(s)) \o HtmlOfChars(Tail(s))

C16_PlainTextRendering ==
    text_op = "convert_text_to_html" =>
        /\ ~text_raised
        /\ ~HasChar(text_out, LF)
        /\ ~HasChar(text_out, QUOTE)
        /\ ~HasChar(text_out, "'")
        /\ text_out = HtmlOfChars(preprocess_text(text_in))
        /\ \A i \in 1..Len(text_out) :
              /\ text_out[i] = "<" => StartsWith(Drop(text_out, i - 1), LINE_BREAK_TAG)
              /\ text_out[i] = ">" => (i >= 4 /\ SubSeq(text_out, i - 3, i) = LINE_BREAK_TAG)

\* every metacharacter and a line feed
C16_Witness ==
    /\ text_op = "convert_text_to_html"
    /\ text_in = <<"&", "<", ">", "'", QUOTE, LF>>
    /\ Len(text_out) = 29

(***************************************************************************)
(* C17.  The FeedbackResult is constructed once, at submission, and is a   *)
(* snapshot: feedback_result is unset until a submit, only                 *)
(* _submit_feedback writes it, it then holds the text composed and the     *)
(* images collected at that moment, and once written it never changes,     *)
(* whatever happens afterwards.                                            *)
(***************************************************************************)
C17_ResultIsSnapshot ==
    /\ feedback_result = None
    /\ [][ /\ feedback_result # None => feedback_result' = feedback_result
           /\ feedback_result' # feedback_result =>
                 /\ \E plain_text \in FeedbackTexts : SubmitFeedback(plain_text)
                 /\ feedback_result'.images = ImageB64List(image_data)
                 /\ feedback_result'.interactive_feedback =
                        ComposeFeedback(last'.plain_text, option_checkboxes.list) ]_vars

\* a result with text and an image, after a later step (run() has returned it)
C17_Witness ==
    /\ Submitted
    /\ run_result = feedback_result
    /\ Len(feedback_result.images) >= 1
    /\ feedback_result.interactive_feedback # <<>>

(***************************************************************************)
(* C18.  Escape substitution is a single pass over the original string:    *)
(* the escape step gives what reading the text (after the JSON step) once  *)
(* from left to right gives, each backslash-n, backslash-t, backslash-r    *)
(* and backslash-backslash pair replaced once and no character produced    *)
(* by a replacement taken as part of another pair.                         *)
(***************************************************************************)
EscapedChar(c) ==
    CASE c = "n" -> LF
      [] c = "t" -> TAB
      [] c = "r" -> CR
      [] c = BS  -> BS

RECURSIVE SinglePassEscapes(_)
SinglePassEscapes(s) ==
    IF s = <<>> THEN <<>>
    ELSE IF Head(s) = BS /\ Len(s) >= 2 /\ s[2] \in {"n", "t", "r", BS}
         THEN <<EscapedChar(s[2])>> \o SinglePassEscapes(Drop(s, 2))
         ELSE <<Head(s)>> \o SinglePassEscapes(Tail(s))

C18_SinglePassEscapes ==
    (text_op = "preprocess_text" /\ IsStr(text_in)) =>
        /\ AfterEscapes(text_in) = SinglePassEscapes(AfterJson(text_in))
        /\ text_out = LineEndingsToLf(SinglePassEscapes(AfterJson(text_in)))

(***************************************************************************)
(* C19.  No double unescaping: when the whole input is a JSON string       *)
(* literal and is replaced by its decoded value, the escape step does not  *)
(* unescape the decoded value again; the normalised text is the decoded    *)
(* value (with its line endings normalised).                               *)
(***************************************************************************)
C19_NoDoubleUnescaping ==
    (text_op = "preprocess_text" /\ IsStr(text_in) /\ JsonLoads(text_in).kind = "str") =>
        /\ AfterEscapes(text_in) = JsonLoads(text_in).val
        /\ text_out = LineEndingsToLf(JsonLoads(text_in).val)

(***************************************************************************)
(* C20.  The prompt is normalised once and rendered by one converter: the  *)
(* markup shown at construction is convert_markdown_to_html(p) when        *)
(* is_markdown(p) and convert_text_to_html(p) otherwise; normalising p in  *)
(* _create_description_area first changes neither the classifier's verdict *)
(* nor the markup.                                                         *)
(***************************************************************************)
C20_DescriptionMarkup ==
    text_op = "_create_description_area" =>
        /\ ~text_raised
        /\ is_markdown(preprocess_text(text_in)) = is_markdown(text_in)
        /\ text_out = IF is_markdown(text_in)
                      THEN convert_markdown_to_html(text_in, md_engine)
                      ELSE convert_text_to_html(text_in)

(***************************************************************************)
(* Definitions used by the properties of the image collection              *)
(***************************************************************************)
\* t is s without its element at position i
IsWithout(t, s, i) ==
    /\ i \in 1..Len(s)
    /\ Len(t) = Len(s) - 1
    /\ \A j \in 1..Len(t) : t[j] = IF j < i THEN s[j] ELSE s[j + 1]

\* s is the beginning of t
IsPrefix(s, t) ==
    /\ Len(s) <= Len(t)
    /\ \A j \in 1..Len(s) : t[j] = s[j]

(***************************************************************************)
(* C21.  Records are removed only by the deletion of a preview: no step    *)
(* other than _delete_image_frame on a frame of the preview list makes the *)
(* collection lose or reorder a record (every other step leaves it or      *)
(* appends to it), and such a deletion removes exactly one record, the one *)
(* at the index of the frame, and exactly that frame, the other records    *)
(* and frames keeping their order.                                         *)
(***************************************************************************)
C21_RemovedOnlyByDeletion ==
    [][ LET deletion == /\ last'.op = "delete"
                        /\ \E frame \in all_frames :
                              DeleteImageFrame(frame) /\ InSeq(image_frames, frame)
        IN  /\ ~deletion => IsPrefix(image_data, image_data')
            /\ deletion =>
                  \E i \in 1..Len(image_frames) :
                      /\ image_frames[i] = last'.frame
                      /\ IsWithout(image_frames', image_frames, i)
                      /\ IsWithout(image_data', image_data, i) ]_vars

\* the first of two previews was deleted: the second record and frame remain
C21_Witness ==
    /\ last.op = "delete"
    /\ last.listed
    /\ last.frame = 1
    /\ image_frames = <<2>>
    /\ Len(image_data) = 1
    /\ RecordBitmap(image_data[1]) = 2

(***************************************************************************)
(* C22.  Each paste produces zero or one record: a paste whose image       *)
(* encodes successfully appends exactly one record to the end of the       *)
(* collection and does not run the default paste (nothing is inserted      *)
(* into the text); a paste with no image or with a failed encode leaves    *)
(* the collection unchanged and falls back to the default paste.           *)
(***************************************************************************)
C22_PasteZeroOrOneRecord ==
    last.op = "paste" =>
        LET encoded == last.has_image /\ ~last.image_null /\ last.save = "ok"
        IN  IF encoded
            THEN /\ Len(appended) = last.n_before + 1
                 /\ appended[Len(appended)] =
                        [base64 |-> PngBase64(last.first), filename |-> PastedFileName(last.first)]
                 /\ image_data # <<>>
                 /\ image_data[Len(image_data)] = appended[Len(appended)]
                 /\ last.preview = "ok" => ~last.default_paste
            ELSE /\ Len(appended) = last.n_before
                 /\ last.default_paste

(***************************************************************************)
(* C23.  Deleting a preview frame that is no longer in the preview list    *)
(* (a second click on the delete button of a deleted frame) changes        *)
(* nothing: image_frames, image_data and the visibility of the preview     *)
(* area stay as they are.                                                  *)
(***************************************************************************)
C23_DeleteAbsentFrameIsNoOp ==
    [][ (last'.op = "delete" /\ last'.frame \in all_frames
           /\ ~InSeq(image_frames, last'.frame)
           /\ DeleteImageFrame(last'.frame))
        => /\ image_frames' = image_frames
           /\ image_data' = image_data
           /\ scroll_area_visible' = scroll_area_visible ]_vars

\* the delete button of a deleted frame was clicked while another preview is shown
C23_Witness ==
    /\ last.op = "delete"
    /\ ~last.listed
    /\ last.frame \in deleted
    /\ image_frames # <<>>
    /\ image_data # <<>>
    /\ scroll_area_visible

(***************************************************************************)
(* C24.  The image preview area is visible exactly when there is at least  *)
(* one preview frame, in every state reached by paste, file-add and        *)
(* delete events.                                                          *)
(***************************************************************************)
C24_VisibleIffFrames ==
    scroll_area_visible <=> image_frames # <<>>

\* shown again after the only preview was deleted and an image was added
C24_Witness ==
    /\ deleted # {}
    /\ Len(image_frames) = 1
    /\ image_frames[1] \notin deleted
    /\ scroll_area_visible
    /\ last.op \in {"paste", "add_images"}

(***************************************************************************)
(* C25.  Font size stays bounded: after any sequence of zoom-in, zoom-out  *)
(* and reset actions the application font point size is an integer from 8  *)
(* to 24, and right after a reset it is 13.                                *)
(***************************************************************************)
C25_FontSizeBounded ==
    /\ point_size \in 8..24
    /\ font_op = "reset" => point_size = 13

\* a zoom-in at the upper end: 26 is cut down to 24
C25_Witness ==
    /\ font_op = "zoom_in"
    /\ prev_size = 24
    /\ point_size = 24

(***************************************************************************)
(* C26.  Zoom-in makes progress: from every reachable point size s with    *)
(* 8 <= s < 24 one zoom-in gives a size greater than s, and from every     *)
(* reachable s with 8 < s <= 24 one zoom-out gives a size smaller than s.  *)
(***************************************************************************)
C26_ZoomMakesProgress ==
    /\ (font_op = "zoom_in" /\ 8 <= prev_size /\ prev_size < 24) => point_size > prev_size
    /\ (font_op = "zoom_out" /\ 8 < prev_size /\ prev_size <= 24) => point_size < prev_size

====
